---- MODULE Spec2Model ----
(***************************************************************************)
(* Model of the ElevenLabs provider settings page (src/unnamed/part_001)   *)
(* and of the LLM store (src/stores/llm.ts).                               *)
(*                                                                         *)
(* Numbers are hundredths: 0.75 is 75, 1.0 is 100, 5.0 is 500.  A JS value *)
(* that may be undefined/null is an option: <<>> (None) or <<v>>.          *)
(***************************************************************************)
EXTENDS Integers, Sequences, FiniteSets, TLC

VARIABLES
    providerMetadata, \* providersStore.getProviderMetadata('elevenlabs')
    providers,        \* providers.value['elevenlabs'], the persisted record
    mounted,          \* "setup" | "mounted" | "unmounted"
    oldValue,         \* the watcher's last seen values of its seven sources
    pending,          \* the watcher's job is queued for the next flush
    lastOp,           \* history: the last handler run (none/mount/set/reset)
    lastSet,          \* history: field and value of the last setter call
    before,           \* history: the seven effective values before lastOp
    runs,             \* history: watcher callback runs since lastOp
    testText,         \* the playground's text
    isGenerating,
    audioUrl,         \* 0 is '', n > 0 the n-th object URL
    errorMessage,
    logged,           \* what console.error was last called with
    liveUrls,         \* object URLs created and not revoked
    nextUrl,          \* the next object URL to be created
    requests,         \* generateSpeech requests in flight
    calls,            \* generateTestSpeech calls that reached generateSpeech
    instanceCache,    \* the providers store's cached speech provider
    nextInstance,     \* the next speech provider instance to be constructed
    lastCall,         \* history: how the last generateTestSpeech call went
    openAI,           \* useLLM: the OpenAI client
    openAIProvider,   \* useLLM: the AI SDK provider
    nextClient,       \* the next client object to be constructed
    llmCalls,         \* stream/models calls awaiting their downstream call
    llmSent,          \* downstream calls made by stream and models
    llmOutcome,       \* how the last stream/models call ended, if it has
    lastOptions,      \* history: the options of the last setupOpenAI
    lastUsed,         \* history: the client each operation used last
    changed,          \* history: setupOpenAI ran since the operation's last use
    llmIssue          \* history: the last stream/models call that went downstream

settingsVars == <<providerMetadata, providers, mounted, oldValue, pending,
                  lastOp, lastSet, before, runs>>

speechVars == <<testText, isGenerating, audioUrl, errorMessage, logged,
                liveUrls, nextUrl, requests, calls, instanceCache,
                nextInstance, lastCall>>

llmVars == <<openAI, openAIProvider, nextClient, llmCalls, llmSent,
             llmOutcome, lastOptions, lastUsed, changed, llmIssue>>

vars == <<settingsVars, speechVars, llmVars>>

----------------------------------------------------------------------------
(* JavaScript values and operators *)

None == <<>>
Some(v) == <<v>>

\* a || b on strings: '' and undefined are falsy
StrOr(o, d) == IF o = None \/ o[1] = "" THEN d ELSE o[1]

\* a ?? b: only undefined/null take the default
Nullish(o, d) == IF o = None THEN d ELSE o[1]

\* a !== false
NotFalse(o) == o # <<FALSE>>

EmptyVoiceSettings ==
    [similarityBoost |-> None, stability |-> None, speed |-> None,
     style |-> None, useSpeakerBoost |-> None]

\* {} as a provider record
EmptyRecord ==
    [apiKey |-> None, baseUrl |-> None, voiceSettings |-> None, style |-> None]

\* providers.value[providerId]?.<f>
Field(p, f) == IF p = None THEN None ELSE p[1][f]

\* (providers.value[providerId]?.voiceSettings as any)?.<f>
VoiceField(p, f) ==
    IF Field(p, "voiceSettings") = None THEN None
    ELSE Field(p, "voiceSettings")[1][f]

\* providerMetadata.value?.defaultOptions?.baseUrl
DefaultBaseUrl(md) ==
    IF md = None THEN None
    ELSE IF md[1].defaultOptions = None THEN None
    ELSE md[1].defaultOptions[1].baseUrl

----------------------------------------------------------------------------
(* The computed getters *)

apiKey_get(p) == StrOr(Field(p, "apiKey"), "")

\* Faulty variant (tests C10): the descriptor's default is tried before the persisted override
baseUrl_get_defaultFirst(p, md) ==
    StrOr(DefaultBaseUrl(md), StrOr(Field(p, "baseUrl"), ""))

baseUrl_get(p, md) == StrOr(Field(p, "baseUrl"), StrOr(DefaultBaseUrl(md), ""))

similarityBoost_get(p) == Nullish(VoiceField(p, "similarityBoost"), 75)

stability_get(p) == Nullish(VoiceField(p, "stability"), 50)

speed_get(p) == Nullish(VoiceField(p, "speed"), 100)

style_get(p) == Nullish(VoiceField(p, "style"), 0)

useSpeakerBoost_get(p) == NotFalse(VoiceField(p, "useSpeakerBoost"))

\* the seven watched sources, evaluated
Effective(p, md) ==
    [apiKey |-> apiKey_get(p), baseUrl |-> baseUrl_get(p, md),
     similarityBoost |-> similarityBoost_get(p),
     stability |-> stability_get(p), speed |-> speed_get(p),
     style |-> style_get(p), useSpeakerBoost |-> useSpeakerBoost_get(p)]

----------------------------------------------------------------------------
(* The computed setters *)

\* if (!providers.value[providerId]) providers.value[providerId] = {}
EnsureRecord(p) == IF p = None THEN Some(EmptyRecord) ELSE p

\* if (!providers.value[providerId].voiceSettings) ...voiceSettings = {}
EnsureVoiceSettings(p) ==
    IF EnsureRecord(p)[1].voiceSettings = None
    THEN Some([EnsureRecord(p)[1] EXCEPT !.voiceSettings = Some(EmptyVoiceSettings)])
    ELSE EnsureRecord(p)

SetVoiceField(p, f, v) ==
    Some([EnsureVoiceSettings(p)[1] EXCEPT
            !.voiceSettings = Some([@[1] EXCEPT ![f] = Some(v)])])

apiKey_set(p, v) == Some([EnsureRecord(p)[1] EXCEPT !.apiKey = Some(v)])

baseUrl_set(p, v) == Some([EnsureRecord(p)[1] EXCEPT !.baseUrl = Some(v)])

similarityBoost_set(p, v) == SetVoiceField(p, "similarityBoost", v)

\* Faulty variant (tests C3): the setter assigns a new voiceSettings object holding only its
\* own field
stability_set_replacing(p, v) ==
    Some([EnsureRecord(p)[1] EXCEPT
            !.voiceSettings = Some([EmptyVoiceSettings EXCEPT !.stability = Some(v)])])

stability_set(p, v) == SetVoiceField(p, "stability", v)

speed_set(p, v) == SetVoiceField(p, "speed", v)

\* writes providers.value[providerId].style, not voiceSettings.style
style_set(p, v) == Some([EnsureVoiceSettings(p)[1] EXCEPT !.style = Some(v)])

useSpeakerBoost_set(p, v) == SetVoiceField(p, "useSpeakerBoost", v)

----------------------------------------------------------------------------
(* Inputs *)

\* providerMetadata: unknown provider, no default options, options with or
\* without a default endpoint
Descriptors ==
    {None,
     Some([defaultOptions |-> None]),
     Some([defaultOptions |-> Some([baseUrl |-> None])]),
     Some([defaultOptions |-> Some([baseUrl |-> Some("https://default")])])}

PersistedVoiceSettings ==
    [similarityBoost : {None, Some(30)},
     stability       : {None, Some(90)},
     speed           : {None, Some(80), Some(500)},
     style           : {None, Some(40)},
     useSpeakerBoost : {None, Some(FALSE), Some(TRUE)}]

\* what storage may hold for the provider when the page is opened
Persisted ==
    {None} \cup
    {Some(r) : r \in [apiKey        : {None, Some(""), Some("k")},
                      baseUrl       : {None, Some(""), Some("https://custom")},
                      voiceSettings : {None} \cup {Some(v) : v \in PersistedVoiceSettings},
                      style         : {None, Some(40)}]}

\* what the inputs of the form hand to the setters (sliders stay in range)
ApiKeyInputs == {"", "k", "k2"}
BaseUrlInputs == {"", "https://custom"}
SimilarityBoostInputs == {0, 30}
StabilityInputs == {0, 90}
SpeedInputs == {70, 120}
StyleInputs == {0, 40}
UseSpeakerBoostInputs == {TRUE, FALSE}

----------------------------------------------------------------------------
(* Handlers of the settings page *)

\* providersStore.initializeProvider: creates the record from the descriptor's
\* defaults when there is none, or leaves the store as it is
initializeProvider(p, md) ==
    {p} \cup
    (IF p = None
     THEN {Some([EmptyRecord EXCEPT !.baseUrl = DefaultBaseUrl(md)])}
     ELSE {})

\* the five voice-setting assignments of onMounted
MountVoiceSettings(p) ==
    IF Field(p, "voiceSettings") = None THEN p
    ELSE LET p1 == similarityBoost_set(p, Nullish(VoiceField(p, "similarityBoost"), 75))
             p2 == stability_set(p1, Nullish(VoiceField(p1, "stability"), 50))
             p3 == speed_set(p2, Nullish(VoiceField(p2, "speed"), 100))
             p4 == style_set(p3, Nullish(VoiceField(p3, "style"), 0))
         IN  useSpeakerBoost_set(p4, NotFalse(VoiceField(p4, "useSpeakerBoost")))

MountRecord(p0, md) ==
    LET p1 == apiKey_set(p0, StrOr(Field(p0, "apiKey"), ""))
        p2 == baseUrl_set(p1, StrOr(Field(p1, "baseUrl"), StrOr(DefaultBaseUrl(md), "")))
    IN  MountVoiceSettings(p2)

\* Faulty variant (tests C12): the callback stores stability under speed
WriteBack_speedFromStability(p, md) ==
    Some([(IF p = None THEN EmptyRecord ELSE p[1]) EXCEPT
        !.apiKey = Some(apiKey_get(p)),
        !.baseUrl = Some(StrOr(Some(baseUrl_get(p, md)), StrOr(DefaultBaseUrl(md), ""))),
        !.voiceSettings = Some(
            [similarityBoost |-> Some(similarityBoost_get(p)),
             stability       |-> Some(stability_get(p)),
             speed           |-> Some(stability_get(p)),
             style           |-> Some(style_get(p)),
             useSpeakerBoost |-> Some(useSpeakerBoost_get(p))])])

\* the record the watcher's callback assigns
WriteBack(p, md) ==
    Some([(IF p = None THEN EmptyRecord ELSE p[1]) EXCEPT
        !.apiKey = Some(apiKey_get(p)),
        !.baseUrl = Some(StrOr(Some(baseUrl_get(p, md)), StrOr(DefaultBaseUrl(md), ""))),
        !.voiceSettings = Some(
            [similarityBoost |-> Some(similarityBoost_get(p)),
             stability       |-> Some(stability_get(p)),
             speed           |-> Some(speed_get(p)),
             style           |-> Some(style_get(p)),
             useSpeakerBoost |-> Some(useSpeakerBoost_get(p))])])

\* providers.value[providerId] = { ...defaultOptions }
ResetRecord(md) == Some([EmptyRecord EXCEPT !.baseUrl = DefaultBaseUrl(md)])

\* setup(): the refs are created and the watcher records its sources
InitSettings(descriptors, persisted) ==
    /\ providerMetadata \in descriptors
    /\ providers \in persisted
    /\ mounted = "setup"
    /\ oldValue = Effective(providers, providerMetadata)
    /\ pending = FALSE
    /\ lastOp = "none"
    /\ lastSet = None
    /\ before = Effective(providers, providerMetadata)
    /\ runs = 0

onMounted ==
    /\ mounted = "setup"
    /\ \E p0 \in initializeProvider(providers, providerMetadata) :
          providers' = MountRecord(p0, providerMetadata)
    /\ mounted' = "mounted"
    /\ pending' = (providers' # providers)
    /\ lastOp' = "mount"
    /\ lastSet' = None
    /\ before' = Effective(providers, providerMetadata)
    /\ runs' = 0
    /\ UNCHANGED <<providerMetadata, oldValue>>

\* a v-model assignment to one of the seven computed properties
Write(f, next) ==
    /\ mounted = "mounted"
    /\ ~pending
    /\ providers' = next
    /\ pending' = (next # providers)
    /\ lastOp' = "set"
    /\ before' = Effective(providers, providerMetadata)
    /\ runs' = 0
    /\ UNCHANGED <<providerMetadata, mounted, oldValue>>

SetApiKey ==
    \E v \in ApiKeyInputs :
        /\ Write("apiKey", apiKey_set(providers, v))
        /\ lastSet' = Some([field |-> "apiKey", value |-> v])

SetBaseUrl ==
    \E v \in BaseUrlInputs :
        /\ Write("baseUrl", baseUrl_set(providers, v))
        /\ lastSet' = Some([field |-> "baseUrl", value |-> v])

SetSimilarityBoost ==
    \E v \in SimilarityBoostInputs :
        /\ Write("similarityBoost", similarityBoost_set(providers, v))
        /\ lastSet' = Some([field |-> "similarityBoost", value |-> v])

SetStability ==
    \E v \in StabilityInputs :
        /\ Write("stability", stability_set(providers, v))
        /\ lastSet' = Some([field |-> "stability", value |-> v])

SetSpeed ==
    \E v \in SpeedInputs :
        /\ Write("speed", speed_set(providers, v))
        /\ lastSet' = Some([field |-> "speed", value |-> v])

SetStyle ==
    \E v \in StyleInputs :
        /\ Write("style", style_set(providers, v))
        /\ lastSet' = Some([field |-> "style", value |-> v])

SetUseSpeakerBoost ==
    \E v \in UseSpeakerBoostInputs :
        /\ Write("useSpeakerBoost", useSpeakerBoost_set(providers, v))
        /\ lastSet' = Some([field |-> "useSpeakerBoost", value |-> v])

handleResetVoiceSettings ==
    /\ mounted = "mounted"
    /\ ~pending
    /\ providers' = ResetRecord(providerMetadata)
    /\ pending' = TRUE
    /\ lastOp' = "reset"
    /\ lastSet' = None
    /\ before' = Effective(providers, providerMetadata)
    /\ runs' = 0
    /\ UNCHANGED <<providerMetadata, mounted, oldValue>>

\* the queued watcher job finds a changed source and runs the callback, whose
\* assignment queues the job again
WatcherRun ==
    /\ pending
    /\ Effective(providers, providerMetadata) # oldValue
    /\ providers' = WriteBack(providers, providerMetadata)
    /\ oldValue' = Effective(providers, providerMetadata)
    /\ pending' = TRUE
    /\ runs' = runs + 1
    /\ UNCHANGED <<providerMetadata, mounted, lastOp, lastSet, before>>

\* the queued watcher job finds its sources unchanged
WatcherIdle ==
    /\ pending
    /\ Effective(providers, providerMetadata) = oldValue
    /\ pending' = FALSE
    /\ UNCHANGED <<providerMetadata, providers, mounted, oldValue,
                   lastOp, lastSet, before, runs>>

----------------------------------------------------------------------------
(* The voice playground *)

MaxGenerations == 2

TestTexts == {"", " ", "Hello!"}

\* String.prototype.trim on the texts above
Trim(t) == IF t = " " THEN "" ELSE t

\* what generateSpeech may fail with: Error objects and a thrown non-Error
Causes ==
    {[isError |-> TRUE, message |-> "quota exceeded"],
     [isError |-> TRUE, message |-> ""],
     [isError |-> FALSE, message |-> "aborted"]}

\* providersStore.getProviderInstance, after the Instance Cache: nothing when
\* the apiKey is unset, the cached instance when its fingerprint matches the
\* effective configuration, a newly constructed instance otherwise
getProviderInstance(p, md, cache, fresh) ==
    IF apiKey_get(p) = "" THEN None
    ELSE IF cache # None /\ cache[1].fingerprint = Effective(p, md) THEN cache
    ELSE Some([id |-> fresh, fingerprint |-> Effective(p, md)])

\* the voiceSettings handed to provider.speech
SpeechVoiceSettings(p) ==
    [stability |-> stability_get(p), similarityBoost |-> similarityBoost_get(p),
     speed |-> speed_get(p), style |-> style_get(p),
     useSpeakerBoost |-> useSpeakerBoost_get(p)]

\* Faulty variant (tests C9): every cause is shown as the generic text
ErrorText_generic(c) == "An unknown error occurred"

\* error instanceof Error ? error.message : 'An unknown error occurred'
ErrorText(c) == IF c.isError THEN c.message ELSE "An unknown error occurred"

\* URL.revokeObjectURL(audioUrl.value) when audioUrl.value is set
Revoked(live, url) == IF url # 0 THEN live \ {url} ELSE live

InitSpeech ==
    /\ testText = "Hello!"
    /\ isGenerating = FALSE
    /\ audioUrl = 0
    /\ errorMessage = ""
    /\ logged = None
    /\ liveUrls = {}
    /\ nextUrl = 1
    /\ requests = {}
    /\ calls = 0
    /\ instanceCache = None
    /\ nextInstance = 1
    /\ lastCall = None

SetTestText ==
    /\ mounted = "mounted"
    /\ ~pending
    /\ \E t \in TestTexts : t # testText /\ testText' = t
    /\ UNCHANGED <<isGenerating, audioUrl, errorMessage, logged, liveUrls,
                   nextUrl, requests, calls, instanceCache, nextInstance,
                   lastCall>>

\* console.error(text) and console.error(text, error)
LogLine(text, cause) == [text |-> text, cause |-> cause]

\* generateTestSpeech up to its await
generateTestSpeech ==
    /\ mounted = "mounted"
    /\ ~pending
    /\ calls < MaxGenerations
    /\ LET provider == getProviderInstance(providers, providerMetadata,
                                           instanceCache, nextInstance)
       IN
       IF Trim(testText) = ""
       THEN /\ lastCall' = Some([outcome |-> "no text", cause |-> None,
                                 instance |-> 0, previous |-> 0,
                                 changed |-> FALSE, calls |-> calls])
            /\ UNCHANGED <<isGenerating, audioUrl, errorMessage, logged,
                           liveUrls, requests, calls, instanceCache,
                           nextInstance>>
       ELSE IF provider = None
       THEN /\ logged' = Some(LogLine("Failed to initialize speech provider", None))
            /\ lastCall' = Some([outcome |-> "no provider", cause |-> None,
                                 instance |-> 0, previous |-> 0,
                                 changed |-> FALSE, calls |-> calls])
            /\ UNCHANGED <<isGenerating, audioUrl, errorMessage, liveUrls,
                           requests, calls, instanceCache, nextInstance>>
       ELSE /\ instanceCache' = provider
            /\ nextInstance' = IF provider[1].id = nextInstance
                               THEN nextInstance + 1 ELSE nextInstance
            /\ isGenerating' = TRUE
            /\ errorMessage' = ""
            /\ liveUrls' = Revoked(liveUrls, audioUrl)
            /\ audioUrl' = 0
            /\ calls' = calls + 1
            /\ requests' = requests \cup
                   {[id |-> calls + 1, instance |-> provider[1].id,
                     voiceSettings |-> SpeechVoiceSettings(providers)]}
            /\ lastCall' = Some(
                   [outcome |-> "awaiting", cause |-> None,
                    instance |-> provider[1].id,
                    previous |-> IF instanceCache = None THEN 0
                                 ELSE instanceCache[1].id,
                    changed |-> /\ instanceCache # None
                                /\ instanceCache[1].fingerprint #
                                       Effective(providers, providerMetadata),
                    calls |-> calls + 1])
            /\ UNCHANGED logged
    /\ UNCHANGED <<testText, nextUrl>>

\* generateSpeech resolves: the rest of the try block, then finally
SpeechResolved ==
    \E r \in requests :
        /\ requests' = requests \ {r}
        /\ audioUrl' = nextUrl
        /\ liveUrls' = liveUrls \cup {nextUrl}
        /\ nextUrl' = nextUrl + 1
        /\ isGenerating' = FALSE
        /\ UNCHANGED <<testText, errorMessage, logged, calls, instanceCache,
                       nextInstance, lastCall>>

\* generateSpeech rejects: the catch block, then finally
SpeechRejected ==
    \E r \in requests, c \in Causes :
        /\ requests' = requests \ {r}
        /\ logged' = Some(LogLine("Error generating speech:", Some(c)))
        /\ errorMessage' = ErrorText(c)
        /\ isGenerating' = FALSE
        /\ lastCall' = Some([outcome |-> "failed", cause |-> Some(c),
                             instance |-> r.instance, previous |-> 0,
                             changed |-> FALSE, calls |-> calls])
        /\ UNCHANGED <<testText, audioUrl, liveUrls, nextUrl, calls,
                       instanceCache, nextInstance>>

\* Faulty variant (tests C11): the button stays enabled during a generation
TestVoiceDisabled_ignoringFlag ==
    Trim(testText) = "" \/ apiKey_get(providers) = ""

\* :disabled="isGenerating || !testText.trim() || !apiKey" of the Test Voice
\* button
TestVoiceDisabled ==
    isGenerating \/ Trim(testText) = "" \/ apiKey_get(providers) = ""

\* a click on the Test Voice button: @click="generateTestSpeech", which an
\* enabled button alone delivers
clickTestVoice ==
    /\ ~TestVoiceDisabled
    /\ generateTestSpeech

stopTestAudio ==
    /\ mounted = "mounted"
    /\ ~pending
    /\ audioUrl # 0
    /\ liveUrls' = Revoked(liveUrls, audioUrl)
    /\ audioUrl' = 0
    /\ UNCHANGED <<testText, isGenerating, errorMessage, logged, nextUrl,
                   requests, calls, instanceCache, nextInstance, lastCall>>

\* the component is unmounted: its watcher stops and onUnmounted runs
onUnmounted ==
    /\ mounted = "mounted"
    /\ ~pending
    /\ mounted' = "unmounted"
    /\ liveUrls' = Revoked(liveUrls, audioUrl)
    /\ UNCHANGED <<providerMetadata, providers, oldValue, pending,
                   lastOp, lastSet, before, runs>>
    /\ UNCHANGED <<testText, isGenerating, audioUrl, errorMessage, logged,
                   nextUrl, requests, calls, instanceCache, nextInstance,
                   lastCall>>

----------------------------------------------------------------------------
(* The LLM store *)

MaxSetups == 2
MaxLlmCalls == 3

\* OpenAIProviderSettings handed to setupOpenAI
Options == {[apiKey |-> "k", baseURL |-> "https://a"],
            [apiKey |-> "k2", baseURL |-> "https://b"]}

Operations == {"stream", "models"}

\* new Error('OpenAI not initialized')
NotInitialized == [isError |-> TRUE, message |-> "OpenAI not initialized"]

\* Faulty variant (tests C7): setupOpenAI keeps the one client object
NewOpenAI_sameObject(id, options) == Some([id |-> 1, options |-> options])

\* new OpenAI({ ...options, dangerouslyAllowBrowser: true })
NewOpenAI(id, options) == Some([id |-> id, options |-> options])

\* Faulty variant (tests C6): the provider is created without the options
NewOpenAIProvider_noOptions(id, options) ==
    Some([id |-> id, options |-> [apiKey |-> "k", baseURL |-> "https://a"]])

\* createOpenAI(options)
NewOpenAIProvider(id, options) == Some([id |-> id, options |-> options])

\* the ref each operation reads its client from
ClientOf(op, client, provider) == IF op = "stream" THEN provider ELSE client

\* Faulty variant (tests C5): the error is returned instead of thrown
ReturnNotInitialized(op, sent) ==
    [op |-> op, how |-> "returned", value |-> NotInitialized,
     clientMissing |-> TRUE, sentBefore |-> sent, failure |-> None]

\* if (!client) throw new Error('OpenAI not initialized')
ThrowNotInitialized(op, sent) ==
    [op |-> op, how |-> "thrown", value |-> NotInitialized,
     clientMissing |-> TRUE, sentBefore |-> sent, failure |-> None]

\* return await <downstream call>, the call having resolved
ReturnResult(op, sent) ==
    [op |-> op, how |-> "returned", value |-> [isError |-> FALSE, message |-> "result"],
     clientMissing |-> FALSE, sentBefore |-> sent, failure |-> None]

\* return await <downstream call>, the call having rejected with c
Rethrow(op, sent, c) ==
    [op |-> op, how |-> "thrown", value |-> c,
     clientMissing |-> FALSE, sentBefore |-> sent, failure |-> Some(c)]

InitLLM ==
    /\ openAI = None
    /\ openAIProvider = None
    /\ nextClient = 1
    /\ llmCalls = {}
    /\ llmSent = 0
    /\ llmOutcome = None
    /\ lastOptions = None
    /\ lastUsed = [op \in Operations |-> 0]
    /\ changed = [op \in Operations |-> FALSE]
    /\ llmIssue = None

setupOpenAI ==
    /\ nextClient <= 2 * MaxSetups
    /\ \E options \in Options :
        /\ openAI' = NewOpenAI(nextClient, options)
        /\ openAIProvider' = NewOpenAIProvider(nextClient + 1, options)
        /\ lastOptions' = Some(options)
    /\ nextClient' = nextClient + 2
    /\ changed' = [op \in Operations |-> TRUE]
    /\ UNCHANGED <<llmCalls, llmSent, llmOutcome, lastUsed, llmIssue>>

\* stream or models up to its await
Invoke(op) ==
    LET client == ClientOf(op, openAI, openAIProvider) IN
    IF client = None
    THEN /\ llmOutcome' = Some(ThrowNotInitialized(op, llmSent))
         /\ UNCHANGED <<openAI, openAIProvider, nextClient, llmCalls, llmSent,
                        lastOptions, lastUsed, changed, llmIssue>>
    ELSE /\ llmSent < MaxLlmCalls
         /\ llmSent' = llmSent + 1
         /\ llmCalls' = llmCalls \cup
                {[n |-> llmSent + 1, op |-> op, client |-> client[1]]}
         /\ llmOutcome' = None
         /\ llmIssue' = Some([op |-> op, client |-> client[1],
                              latest |-> lastOptions[1],
                              pair |-> nextClient - 2,
                              previous |-> lastUsed[op],
                              changed |-> changed[op]])
         /\ lastUsed' = [lastUsed EXCEPT ![op] = client[1].id]
         /\ changed' = [changed EXCEPT ![op] = FALSE]
         /\ UNCHANGED <<openAI, openAIProvider, nextClient, lastOptions>>

stream == Invoke("stream")

models == Invoke("models")

\* the downstream call of a stream/models call resolves
LlmResolved ==
    \E call \in llmCalls :
        /\ llmCalls' = llmCalls \ {call}
        /\ llmOutcome' = Some(ReturnResult(call.op, llmSent))
        /\ UNCHANGED <<openAI, openAIProvider, nextClient, llmSent,
                       lastOptions, lastUsed, changed, llmIssue>>

\* the downstream call of a stream/models call rejects
LlmRejected ==
    \E call \in llmCalls, c \in Causes :
        /\ llmCalls' = llmCalls \ {call}
        /\ llmOutcome' = Some(Rethrow(call.op, llmSent, c))
        /\ UNCHANGED <<openAI, openAIProvider, nextClient, llmSent,
                       lastOptions, lastUsed, changed, llmIssue>>

----------------------------------------------------------------------------
(* Spec: the settings form, opened on any stored record *)

Init == InitSettings(Descriptors, Persisted) /\ InitSpeech /\ InitLLM

Next ==
    \/ onMounted /\ UNCHANGED <<speechVars, llmVars>>
    \/ SetApiKey /\ UNCHANGED <<speechVars, llmVars>>
    \/ SetBaseUrl /\ UNCHANGED <<speechVars, llmVars>>
    \/ SetSimilarityBoost /\ UNCHANGED <<speechVars, llmVars>>
    \/ SetStability /\ UNCHANGED <<speechVars, llmVars>>
    \/ SetSpeed /\ UNCHANGED <<speechVars, llmVars>>
    \/ SetStyle /\ UNCHANGED <<speechVars, llmVars>>
    \/ SetUseSpeakerBoost /\ UNCHANGED <<speechVars, llmVars>>
    \/ handleResetVoiceSettings /\ UNCHANGED <<speechVars, llmVars>>
    \/ WatcherRun /\ UNCHANGED <<speechVars, llmVars>>
    \/ WatcherIdle /\ UNCHANGED <<speechVars, llmVars>>
    \/ onUnmounted /\ UNCHANGED llmVars

Spec == Init /\ [][Next]_vars

----------------------------------------------------------------------------
(* SpecSpeech: the voice playground, opened on a few stored records *)

PersistedForSpeech ==
    {None,
     Some([EmptyRecord EXCEPT !.apiKey = Some("k")]),
     Some([EmptyRecord EXCEPT
             !.apiKey = Some("k"),
             !.voiceSettings = Some([EmptyVoiceSettings EXCEPT !.speed = Some(500)])])}

InitSpeechPage ==
    /\ InitSettings({Some([defaultOptions |-> Some([baseUrl |-> Some("https://default")])])},
                    PersistedForSpeech)
    /\ InitSpeech
    /\ InitLLM

NextSpeech ==
    \/ onMounted /\ UNCHANGED <<speechVars, llmVars>>
    \/ SetApiKey /\ UNCHANGED <<speechVars, llmVars>>
    \/ WatcherRun /\ UNCHANGED <<speechVars, llmVars>>
    \/ WatcherIdle /\ UNCHANGED <<speechVars, llmVars>>
    \/ SetTestText /\ UNCHANGED <<settingsVars, llmVars>>
    \/ generateTestSpeech /\ UNCHANGED <<settingsVars, llmVars>>
    \/ SpeechResolved /\ UNCHANGED <<settingsVars, llmVars>>
    \/ SpeechRejected /\ UNCHANGED <<settingsVars, llmVars>>
    \/ stopTestAudio /\ UNCHANGED <<settingsVars, llmVars>>
    \/ onUnmounted /\ UNCHANGED llmVars

SpecSpeech == InitSpeechPage /\ [][NextSpeech]_vars

----------------------------------------------------------------------------
(* SpecPlayground: the voice playground as the page drives it, where         *)
(* generateTestSpeech runs on a click of the Test Voice button only         *)

NextPlayground ==
    \/ onMounted /\ UNCHANGED <<speechVars, llmVars>>
    \/ SetApiKey /\ UNCHANGED <<speechVars, llmVars>>
    \/ WatcherRun /\ UNCHANGED <<speechVars, llmVars>>
    \/ WatcherIdle /\ UNCHANGED <<speechVars, llmVars>>
    \/ SetTestText /\ UNCHANGED <<settingsVars, llmVars>>
    \/ clickTestVoice /\ UNCHANGED <<settingsVars, llmVars>>
    \/ SpeechResolved /\ UNCHANGED <<settingsVars, llmVars>>
    \/ SpeechRejected /\ UNCHANGED <<settingsVars, llmVars>>
    \/ stopTestAudio /\ UNCHANGED <<settingsVars, llmVars>>
    \/ onUnmounted /\ UNCHANGED llmVars

SpecPlayground == InitSpeechPage /\ [][NextPlayground]_vars

----------------------------------------------------------------------------
(* SpecLLM: the LLM store *)

NextLLM ==
    \/ setupOpenAI /\ UNCHANGED <<settingsVars, speechVars>>
    \/ stream /\ UNCHANGED <<settingsVars, speechVars>>
    \/ models /\ UNCHANGED <<settingsVars, speechVars>>
    \/ LlmResolved /\ UNCHANGED <<settingsVars, speechVars>>
    \/ LlmRejected /\ UNCHANGED <<settingsVars, speechVars>>

InitStore ==
    /\ InitSettings({None}, {None})
    /\ InitSpeech
    /\ InitLLM

SpecLLM == InitStore /\ [][NextLLM]_vars

----------------------------------------------------------------------------
(* SpecInvoke: the playground and the store.  The two share no variable, so *)
(* a behaviour that uses both reaches no state of either that a behaviour   *)
(* using one of them does not: a behaviour here opens the page or uses the  *)
(* store.                                                                   *)

StoreUnused == nextClient = 1 /\ llmSent = 0 /\ llmOutcome = None

NextInvoke ==
    \/ StoreUnused /\ onMounted /\ UNCHANGED <<speechVars, llmVars>>
    \/ StoreUnused /\ SetApiKey /\ UNCHANGED <<speechVars, llmVars>>
    \/ StoreUnused /\ WatcherRun /\ UNCHANGED <<speechVars, llmVars>>
    \/ StoreUnused /\ WatcherIdle /\ UNCHANGED <<speechVars, llmVars>>
    \/ StoreUnused /\ SetTestText /\ UNCHANGED <<settingsVars, llmVars>>
    \/ StoreUnused /\ generateTestSpeech /\ UNCHANGED <<settingsVars, llmVars>>
    \/ StoreUnused /\ SpeechResolved /\ UNCHANGED <<settingsVars, llmVars>>
    \/ StoreUnused /\ SpeechRejected /\ UNCHANGED <<settingsVars, llmVars>>
    \/ StoreUnused /\ stopTestAudio /\ UNCHANGED <<settingsVars, llmVars>>
    \/ StoreUnused /\ onUnmounted /\ UNCHANGED llmVars
    \/ mounted = "setup" /\ setupOpenAI /\ UNCHANGED <<settingsVars, speechVars>>
    \/ mounted = "setup" /\ stream /\ UNCHANGED <<settingsVars, speechVars>>
    \/ mounted = "setup" /\ models /\ UNCHANGED <<settingsVars, speechVars>>
    \/ mounted = "setup" /\ LlmResolved /\ UNCHANGED <<settingsVars, speechVars>>
    \/ mounted = "setup" /\ LlmRejected /\ UNCHANGED <<settingsVars, speechVars>>

SpecInvoke == InitSpeechPage /\ [][NextInvoke]_vars

----------------------------------------------------------------------------
(* Claims about the settings page *)

VoiceFields == {"similarityBoost", "stability", "speed", "style", "useSpeakerBoost"}

\* the defaults the getters fall back to
VoiceDefaults ==
    [similarityBoost |-> 75, stability |-> 50, speed |-> 100, style |-> 0,
     useSpeakerBoost |-> TRUE]

Current == Effective(providers, providerMetadata)

Settled == ~pending

\* C1: after handleResetVoiceSettings and the watcher's runs, the five voice
\* settings read their defaults and the apiKey read back is the non-empty key
\* the record held before the reset.
C1_ResetKeepsCredentials ==
    (lastOp = "reset" /\ Settled /\ before.apiKey # "") =>
        /\ \A f \in VoiceFields : Current[f] = VoiceDefaults[f]
        /\ Current.apiKey = before.apiKey

\* C2: once the watcher has settled after a setter call, the getter of the
\* field that was set returns the value that was assigned.
C2_ReadsReflectLatestWrite ==
    (lastOp = "set" /\ Settled) => Current[lastSet[1].field] = lastSet[1].value

\* C3: a write through the setter of one voice setting, before and after the
\* watcher's write-back, leaves the effective value of every other voice
\* setting as it was, and a voice setting the record does not hold reads its
\* default.
C3_SiblingsKept ==
    /\ (lastOp = "set" /\ lastSet[1].field \in VoiceFields) =>
           \A g \in VoiceFields \ {lastSet[1].field} : Current[g] = before[g]
    /\ \A g \in VoiceFields :
           VoiceField(providers, g) = None => Current[g] = VoiceDefaults[g]

\* C3 witness: stability set to 0.9 on a record that held a similarity boost
\* of 0.3 and no speed; after the write-back stability is 0.9, the similarity
\* boost still 0.3 and speed its default 1.0, now persisted.
C3_Witness ==
    /\ lastOp = "set" /\ Settled /\ runs = 1
    /\ lastSet[1].field = "stability" /\ lastSet[1].value = 90
    /\ before.stability = 50 /\ before.similarityBoost = 30
    /\ Current.stability = 90 /\ Current.similarityBoost = 30
    /\ Current.speed = 100
    /\ VoiceField(providers, "speed") = Some(100)

\* a || chain: the first non-empty string, else ''
FirstNonEmpty(a, b) ==
    IF a # None /\ a # Some("") THEN a[1]
    ELSE IF b # None /\ b # Some("") THEN b[1]
    ELSE ""

\* C10: the effective baseUrl is the persisted override when the record holds
\* one (a non-empty string), else the descriptor's defaultOptions.baseUrl,
\* else ''; once the watcher has written back, the record holds that same
\* effective value and it is the value read before the write-back.
C10_BaseUrlPriority ==
    /\ Current.baseUrl =
           FirstNonEmpty(Field(providers, "baseUrl"), DefaultBaseUrl(providerMetadata))
    /\ runs > 0 =>
           /\ Field(providers, "baseUrl") = Some(oldValue.baseUrl)
           /\ Current.baseUrl = oldValue.baseUrl

\* C10 witness: no override was persisted, the descriptor's default endpoint
\* was the effective value, and the watcher has written it into the record.
C10_Witness ==
    /\ runs > 0 /\ Settled
    /\ before.baseUrl = "https://default"
    /\ lastOp = "set" /\ lastSet[1].field = "apiKey"
    /\ Field(providers, "baseUrl") = Some("https://default")
    /\ Current.baseUrl = "https://default"

----------------------------------------------------------------------------
(* Claims about the playground and the store *)

InRange(vs) ==
    /\ vs.speed \in 70..120
    /\ vs.similarityBoost \in 0..100
    /\ vs.stability \in 0..100
    /\ vs.style \in 0..100

\* C4: the voice settings read from the record and passed to the speech call
\* are within their ranges: speed in [0.7, 1.2], similarityBoost, stability
\* and style in [0, 1].
C4_ClampedOnResolution ==
    \A r \in requests : InRange(r.voiceSettings)

\* C5 as stated: a call made while there is no client ends with an outcome
\* returned to the caller, not thrown, and makes no downstream call.
C5_NotConfiguredReturned ==
    /\ (llmOutcome # None /\ llmOutcome[1].clientMissing) =>
           /\ llmOutcome[1].how = "returned"
           /\ llmSent = llmOutcome[1].sentBefore
    /\ (lastCall # None /\ lastCall[1].outcome = "no provider") =>
           calls = lastCall[1].calls

\* C5 as amended: a call made while there is no client makes no downstream
\* call; stream and models signal it by throwing Error('OpenAI not
\* initialized'), generateTestSpeech logs 'Failed to initialize speech
\* provider' and returns with no request sent.
C5_NotConfiguredSignalled ==
    /\ (llmOutcome # None /\ llmOutcome[1].clientMissing) =>
           /\ llmOutcome[1].how = "thrown"
           /\ llmOutcome[1].value = NotInitialized
           /\ llmSent = llmOutcome[1].sentBefore
           /\ llmOutcome[1].failure = None
    /\ (lastCall # None /\ lastCall[1].outcome = "no provider") =>
           /\ calls = lastCall[1].calls
           /\ logged = Some(LogLine("Failed to initialize speech provider", None))

\* C5 witness: stream was called on a store that was never set up.
C5_Witness ==
    /\ llmOutcome # None
    /\ llmOutcome[1].clientMissing
    /\ llmOutcome[1].op = "stream"
    /\ openAIProvider = None
    /\ llmSent = 0

\* C6: a stream or models call that goes downstream uses a client built by
\* the last setupOpenAI, from that call's options.
C6_ReadAfterWrite ==
    llmIssue # None =>
        /\ llmIssue[1].client.options = llmIssue[1].latest
        /\ llmIssue[1].client.id \in {llmIssue[1].pair, llmIssue[1].pair + 1}

\* C6 witness: a call is still awaiting a client of the first setup while a
\* later call, made after the second setup, uses the second setup's client.
C6_Witness ==
    /\ llmIssue # None
    /\ llmIssue[1].changed
    /\ llmIssue[1].client.id > 2
    /\ \E call \in llmCalls :
           /\ call.client.id <= 2
           /\ call.client.options # llmIssue[1].client.options

C8_UrlsReleased ==
    (mounted = "unmounted" /\ requests = {}) => liveUrls = {}

\* C9 as stated: a failed downstream call is reported with its cause c: the
\* store's call throws c, the playground shows c's message, never the
\* generic text.
C9_CausePreserved ==
    /\ (llmOutcome # None /\ llmOutcome[1].failure # None) =>
           /\ llmOutcome[1].how = "thrown"
           /\ Some(llmOutcome[1].value) = llmOutcome[1].failure
    /\ (lastCall # None /\ lastCall[1].outcome = "failed") =>
           /\ errorMessage = lastCall[1].cause[1].message
           /\ errorMessage # "An unknown error occurred"

\* C9 as amended: the store's call throws c itself; the playground logs c
\* and shows c's message when c is an Error, the generic text when it is not.
C9_CauseReported ==
    /\ (llmOutcome # None /\ llmOutcome[1].failure # None) =>
           /\ llmOutcome[1].how = "thrown"
           /\ Some(llmOutcome[1].value) = llmOutcome[1].failure
    /\ (lastCall # None /\ lastCall[1].outcome = "failed") =>
           /\ logged = Some(LogLine("Error generating speech:", lastCall[1].cause))
           /\ errorMessage = IF lastCall[1].cause[1].isError
                             THEN lastCall[1].cause[1].message
                             ELSE "An unknown error occurred"

\* C9 witness: generateSpeech failed with a cause that is no Error.
C9_Witness ==
    /\ lastCall # None
    /\ lastCall[1].outcome = "failed"
    /\ ~lastCall[1].cause[1].isError
    /\ errorMessage = "An unknown error occurred"
    /\ ~isGenerating

C12_WatcherQuiesces ==
    /\ runs <= 1
    /\ runs > 0 => Current = oldValue

\* a setter changed a watched value, the callback ran once on it and the
\* following flush found nothing changed
C12_Witness ==
    /\ lastOp = "set"
    /\ Current # before
    /\ runs = 1
    /\ Settled

====
